---- MODULE Spec2Model ----
(***************************************************************************)
(* A model of trade-invoice-extractor.py: the Vendor registry, the Order   *)
(* constructor (readPDF, extractDate, extractItems, isValidItem) and       *)
(* appendItemsToCSV.                                                       *)
(*                                                                         *)
(* Text is modelled as sequences of one-character strings over the         *)
(* alphabet  0-9  A B O X  .  /  -  and the space, so the Python string    *)
(* operations (split, join, find, slicing, int(), float(), re.findall)     *)
(* are computed character by character as the code computes them.          *)
(***************************************************************************)
EXTENDS Integers, Sequences, FiniteSets, TLC

VARIABLES
    vendor,       \* Order.vendor
    pdfPages,     \* the pages PdfReader yields, each a sequence of lines
    textLines,    \* Order.textLines (each line by its name, see LineText)
    date,         \* Order.date (None until extractDate has set it)
    items,        \* Order.items
    csv,          \* the rows of the file at csvPath
    pc,           \* the position of the script in Order.__init__ / main
    raisedAt,     \* history: index of the text line whose Item(...) raised (0: none)
    itemLines,    \* history: for each Item of items, the index of its text line
    csvBefore,    \* history: the rows the file held before the script started
    exports,      \* history: number of appendItemsToCSV calls made
    offsetStart,  \* argument of an isValidItem call
    valid         \* result of an isValidItem call

vars ==
    <<vendor, pdfPages, textLines, date, items, csv, pc, raisedAt, itemLines,
      csvBefore, exports, offsetStart, valid>>

---------------------------------------------------------------------------
(* Bounds of the model *)

MaxLines == 3

MaxExports == 2

MaxOffsetStart == 10

MaxNegOffset == 8

MaxPosOffset == 2

---------------------------------------------------------------------------
(* Characters and Python's string primitives *)

Digits == {"0", "1", "2", "3", "4", "5", "6", "7", "8", "9"}

DigitVal(c) ==
    CASE c = "0" -> 0 [] c = "1" -> 1 [] c = "2" -> 2 [] c = "3" -> 3
      [] c = "4" -> 4 [] c = "5" -> 5 [] c = "6" -> 6 [] c = "7" -> 7
      [] c = "8" -> 8 [] c = "9" -> 9

DigitChar(n) ==
    CASE n = 0 -> "0" [] n = 1 -> "1" [] n = 2 -> "2" [] n = 3 -> "3"
      [] n = 4 -> "4" [] n = 5 -> "5" [] n = 6 -> "6" [] n = 7 -> "7"
      [] n = 8 -> "8" [] n = 9 -> "9"

IsDigits(s) == \A i \in 1..Len(s) : s[i] \in Digits

\* the value of a non-empty string of decimal digits (0 for the empty string)
RECURSIVE DigitsVal(_)
DigitsVal(s) ==
    IF s = <<>> THEN 0
    ELSE 10 * DigitsVal(SubSeq(s, 1, Len(s) - 1)) + DigitVal(s[Len(s)])

\* s[a:b] for 0 <= a, 0 <= b (0-based, end exclusive, clamped to len(s))
PySlice(s, a, b) ==
    LET hi == IF b > Len(s) THEN Len(s) ELSE b
    IN  SubSeq(s, a + 1, hi)

\* s.split(sep) for a one-character sep: empty fields are kept
RECURSIVE PySplit(_, _)
PySplit(s, sep) ==
    IF \A i \in 1..Len(s) : s[i] # sep THEN <<s>>
    ELSE LET p == CHOOSE i \in 1..Len(s) :
                      s[i] = sep /\ \A j \in 1..(i - 1) : s[j] # sep
         IN  <<SubSeq(s, 1, p - 1)>> \o PySplit(SubSeq(s, p + 1, Len(s)), sep)

\* sep.join(words)
RECURSIVE PyJoin(_, _)
PyJoin(sep, words) ==
    IF words = <<>> THEN <<>>
    ELSE IF Len(words) = 1 THEN words[1]
    ELSE words[1] \o <<sep>> \o PyJoin(sep, Tail(words))

\* s.find(c): 0-based index of the first c, -1 when there is none
PyFind(s, c) ==
    IF \A i \in 1..Len(s) : s[i] # c THEN -1
    ELSE (CHOOSE i \in 1..Len(s) : s[i] = c /\ \A j \in 1..(i - 1) : s[j] # c) - 1

\* len(s.split(c)) - 1: the number of occurrences of c in s
PyCount(s, c) == Len(PySplit(s, c)) - 1

\* whether sub occurs in s
Contains(s, sub) ==
    \E p \in 1..(Len(s) - Len(sub) + 1) : SubSeq(s, p, p + Len(sub) - 1) = sub

\* int(s) succeeds: an optional sign and at least one digit (the alphabet has no
\* whitespace inside a token, no underscore)
IsIntLiteral(s) ==
    LET body == IF s # <<>> /\ s[1] \in {"-", "+"} THEN Tail(s) ELSE s
    IN  body # <<>> /\ IsDigits(body)

\* int(s) for an s that IsIntLiteral accepts
PyInt(s) ==
    IF s[1] = "-" THEN 0 - DigitsVal(Tail(s))
    ELSE IF s[1] = "+" THEN DigitsVal(Tail(s))
    ELSE DigitsVal(s)

\* float(s) succeeds, for s = a + "." + b where a holds no "." and b is at most
\* two characters without a "." (the only strings extractItems passes): an
\* optional sign, digits on both sides of the point and at least one digit (the
\* alphabet has no exponent letter, no inf/nan)
IsFloatLiteral(s) ==
    LET body == IF s # <<>> /\ s[1] \in {"-", "+"} THEN Tail(s) ELSE s
        parts == PySplit(body, ".")
    IN  /\ Len(parts) = 2
        /\ IsDigits(parts[1])
        /\ IsDigits(parts[2])
        /\ Len(parts[1]) + Len(parts[2]) > 0

\* float(s) in hundredths, for an s that IsFloatLiteral accepts with at most two
\* fractional digits
PyFloat(s) ==
    LET neg   == s[1] = "-"
        body  == IF s[1] \in {"-", "+"} THEN Tail(s) ELSE s
        parts == PySplit(body, ".")
        frac  == IF Len(parts[2]) = 0 THEN 0
                 ELSE IF Len(parts[2]) = 1 THEN 10 * DigitsVal(parts[2])
                 ELSE DigitsVal(parts[2])
        mag   == 100 * DigitsVal(parts[1]) + frac
    IN  IF neg THEN 0 - mag ELSE mag

---------------------------------------------------------------------------
(* class Vendor, class VendorList *)

Vendor(name, dateFormat, itemRegex, itemNameOffsetIndex, unitsOffsetIndex, unitCostOffsetIndex) ==
    [name |-> name, dateFormat |-> dateFormat, itemRegex |-> itemRegex,
     itemNameOffsetIndex |-> itemNameOffsetIndex,
     unitsOffsetIndex |-> unitsOffsetIndex,
     unitCostOffsetIndex |-> unitCostOffsetIndex]

\* "(?=^\d{3}.{2}\ )(?!.*03330 112 999)"
ScrewfixRegex == "SCREWFIX_ITEM"

\* "(?=^\d{5}\ )(?!.*00006)(?!.*00037)"
ToolstationRegex == "TOOLSTATION_ITEM"

SCREWFIX ==
    Vendor("Screwfix", <<"D", "D", "/", "M", "M", "/", "Y", "Y", "Y", "Y">>,
           ScrewfixRegex, -8, -8, -7)

TOOLSTATION ==
    Vendor("Toolstation", <<"Y", "Y", "Y", "Y", "-", "M", "M", "-", "D", "D">>,
           ToolstationRegex, -1, -1, 0)

VendorList == {SCREWFIX, TOOLSTATION}

SupportPhone == <<"0", "3", "3", "3", "0", " ", "1", "1", "2", " ", "9", "9", "9">>

\* re.search(itemRegex, line) finds a match. Both patterns are lookaheads
\* anchored by ^, so only position 0 can match; "." matches any character of a
\* line (a line holds no newline).
SearchItemRegex(itemRegex, line) ==
    IF itemRegex = ScrewfixRegex
    THEN /\ Len(line) >= 6
         /\ \A i \in 1..3 : line[i] \in Digits
         /\ line[6] = " "
         /\ ~Contains(line, SupportPhone)
    ELSE /\ Len(line) >= 6
         /\ \A i \in 1..5 : line[i] \in Digits
         /\ line[6] = " "
         /\ ~Contains(line, <<"0", "0", "0", "0", "6">>)
         /\ ~Contains(line, <<"0", "0", "0", "3", "7">>)

---------------------------------------------------------------------------
(* class Item *)

\* Item.__init__ raises (int(units) or float(unitCost) fails)
ItemRaises(units, unitCost) == ~IsIntLiteral(units) \/ ~IsFloatLiteral(unitCost)

\* Item(name, units, unitCost); unitCost and total are in hundredths
Item(name, units, unitCost) ==
    [name |-> name, units |-> PyInt(units), unitCost |-> PyFloat(unitCost),
     total |-> PyInt(units) * PyFloat(unitCost)]

---------------------------------------------------------------------------
(* class Order *)

None == <<>>

\* isValidItem with the first lower bound off by one (<= 0 for < 0)
isValidItemNameOffByOne(v, start) ==
    IF (start + v.itemNameOffsetIndex) <= 0 THEN FALSE
    ELSE IF (start + v.itemNameOffsetIndex) > start THEN FALSE
    ELSE IF (start + v.unitsOffsetIndex) < 0 THEN FALSE
    ELSE IF (start + v.unitsOffsetIndex) > start THEN FALSE
    ELSE IF (start + v.unitCostOffsetIndex) < 0 THEN FALSE
    ELSE IF (start + v.unitCostOffsetIndex) > start THEN FALSE
    ELSE TRUE

\* isValidItem demanding that the units index lies after token 0
isValidItemUnitsAfterCode(v, start) ==
    IF (start + v.itemNameOffsetIndex) < 0 THEN FALSE
    ELSE IF (start + v.itemNameOffsetIndex) > start THEN FALSE
    ELSE IF (start + v.unitsOffsetIndex) < 1 THEN FALSE
    ELSE IF (start + v.unitsOffsetIndex) > start THEN FALSE
    ELSE IF (start + v.unitCostOffsetIndex) < 0 THEN FALSE
    ELSE IF (start + v.unitCostOffsetIndex) > start THEN FALSE
    ELSE TRUE

\* Order.isValidItem
isValidItem(v, start) ==
    IF (start + v.itemNameOffsetIndex) < 0 THEN FALSE
    ELSE IF (start + v.itemNameOffsetIndex) > start THEN FALSE
    ELSE IF (start + v.unitsOffsetIndex) < 0 THEN FALSE
    ELSE IF (start + v.unitsOffsetIndex) > start THEN FALSE
    ELSE IF (start + v.unitCostOffsetIndex) < 0 THEN FALSE
    ELSE IF (start + v.unitCostOffsetIndex) > start THEN FALSE
    ELSE TRUE

\* words = line.split(" ")
Words(line) == PySplit(line, " ")

\* NameOf slicing from index 0: the item code becomes part of the name
NameOfWithCode(v, words) ==
    PyJoin(" ", PySlice(words, 0, (Len(words) - 1) + v.itemNameOffsetIndex))

\* words[1 : offsetStart + itemNameOffsetIndex] joined by " "
NameOf(v, words) ==
    PyJoin(" ", PySlice(words, 1, (Len(words) - 1) + v.itemNameOffsetIndex))

\* words[offsetStart + unitsOffsetIndex]
UnitsOf(v, words) == words[(Len(words) - 1) + v.unitsOffsetIndex + 1]

\* words[offsetStart + unitCostOffsetIndex].split(".")
UnitCostParts(v, words) ==
    PySplit(words[(Len(words) - 1) + v.unitCostOffsetIndex + 1], ".")

\* UnitCost keeping one character of the fractional part ([0:1] for [0:2])
UnitCostOneDigit(unitCostParts) ==
    unitCostParts[1] \o <<".">> \o PySlice(unitCostParts[2], 0, 1)

\* unitCostParts[0] + "." + unitCostParts[1][0:2]
UnitCost(unitCostParts) ==
    unitCostParts[1] \o <<".">> \o PySlice(unitCostParts[2], 0, 2)

\* ExtractLine with Item(...) wrapped in try/except: a raising line is skipped
ExtractLineSwallow(v, line) ==
    IF ~SearchItemRegex(v.itemRegex, line) THEN [kind |-> "skip"]
    ELSE LET words == Words(line)
         IN  IF ~isValidItem(v, Len(words) - 1) THEN [kind |-> "skip"]
             ELSE LET unitCostParts == UnitCostParts(v, words)
                  IN  IF ~(Len(unitCostParts) > 1) THEN [kind |-> "skip"]
                      ELSE IF ItemRaises(UnitsOf(v, words), UnitCost(unitCostParts))
                      THEN [kind |-> "skip"]
                      ELSE [kind |-> "item",
                            item |-> Item(NameOf(v, words), UnitsOf(v, words),
                                          UnitCost(unitCostParts))]

\* ExtractLine converting units before the cost shape is looked at: a line
\* without a decimal point raises when its units token is no integer
ExtractLineUnitsFirst(v, line) ==
    IF ~SearchItemRegex(v.itemRegex, line) THEN [kind |-> "skip"]
    ELSE LET words == Words(line)
         IN  IF ~isValidItem(v, Len(words) - 1) THEN [kind |-> "skip"]
             ELSE IF ~IsIntLiteral(UnitsOf(v, words)) THEN [kind |-> "raise"]
             ELSE LET unitCostParts == UnitCostParts(v, words)
                  IN  IF ~(Len(unitCostParts) > 1) THEN [kind |-> "skip"]
                      ELSE IF ItemRaises(UnitsOf(v, words), UnitCost(unitCostParts))
                      THEN [kind |-> "raise"]
                      ELSE [kind |-> "item",
                            item |-> Item(NameOf(v, words), UnitsOf(v, words),
                                          UnitCost(unitCostParts))]

\* one iteration of the loop of Order.extractItems on textLines[i]:
\* "skip" (nothing appended), "raise" (Item.__init__ raised) or "item"
ExtractLine(v, line) ==
    IF ~SearchItemRegex(v.itemRegex, line) THEN [kind |-> "skip"]
    ELSE LET words == Words(line)
         IN  IF ~isValidItem(v, Len(words) - 1) THEN [kind |-> "skip"]
             ELSE LET unitCostParts == UnitCostParts(v, words)
                  IN  IF ~(Len(unitCostParts) > 1) THEN [kind |-> "skip"]
                      ELSE IF ItemRaises(UnitsOf(v, words), UnitCost(unitCostParts))
                      THEN [kind |-> "raise"]
                      ELSE [kind |-> "item",
                            item |-> Item(NameOf(v, words), UnitsOf(v, words),
                                          UnitCost(unitCostParts))]

\* re.search("[\/\-\.]", dateFormat).group()
DateDelim(dateFormat) ==
    dateFormat[CHOOSE i \in 1..Len(dateFormat) :
                   /\ dateFormat[i] \in {"/", "-", "."}
                   /\ \A j \in 1..(i - 1) : dateFormat[j] \notin {"/", "-", "."}]

\* the regex built from dateFormat matches s at 0-based position p: "\d" for
\* every character of the format but the delimiter, which stands for itself
DateRegexMatchesAt(dateFormat, s, p) ==
    /\ p + Len(dateFormat) <= Len(s)
    /\ \A i \in 1..Len(dateFormat) :
           IF dateFormat[i] # DateDelim(dateFormat)
           THEN s[p + i] \in Digits
           ELSE s[p + i] = DateDelim(dateFormat)

\* re.findall(regex, line) from 0-based position p: leftmost, non-overlapping
RECURSIVE FindAllFrom(_, _, _)
FindAllFrom(dateFormat, s, p) ==
    IF p + Len(dateFormat) > Len(s) THEN <<>>
    ELSE IF DateRegexMatchesAt(dateFormat, s, p)
    THEN <<PySlice(s, p, p + Len(dateFormat))>>
             \o FindAllFrom(dateFormat, s, p + Len(dateFormat))
    ELSE FindAllFrom(dateFormat, s, p + 1)

\* str(datetime.datetime.now().year)[0:2] when the format has a two-digit year
YearPrefix(dateFormat) ==
    IF PyCount(dateFormat, "Y") = 2 THEN <<"2", "0">> ELSE <<>>

\* the (year, month, day) handed to datetime.datetime for a match d
DateArgs(dateFormat, d) ==
    LET iD == PyFind(dateFormat, "D")
        iM == PyFind(dateFormat, "M")
        iY == PyFind(dateFormat, "Y")
        numD == PyCount(dateFormat, "D")
        numM == PyCount(dateFormat, "M")
        numY == PyCount(dateFormat, "Y")
    IN  <<PyInt(YearPrefix(dateFormat) \o PySlice(d, iY, iY + numY)),
          PyInt(PySlice(d, iM, iM + numM)),
          PyInt(PySlice(d, iD, iD + numD))>>

IsLeap(y) == (y % 4 = 0 /\ y % 100 # 0) \/ y % 400 = 0

DaysInMonth(y, m) ==
    IF m = 2 THEN (IF IsLeap(y) THEN 29 ELSE 28)
    ELSE IF m \in {4, 6, 9, 11} THEN 30 ELSE 31

\* datetime.datetime(y, m, d) does not raise ValueError
DateTimeOk(ymd) ==
    /\ ymd[1] >= 1 /\ ymd[1] <= 9999
    /\ ymd[2] >= 1 /\ ymd[2] <= 12
    /\ ymd[3] >= 1 /\ ymd[3] <= DaysInMonth(ymd[1], ymd[2])

\* datetime ordering
DateLess(a, b) ==
    \/ a[1] < b[1]
    \/ a[1] = b[1] /\ a[2] < b[2]
    \/ a[1] = b[1] /\ a[2] = b[2] /\ a[3] < b[3]

\* max(dates) for a non-empty list
PyMax(dates) ==
    dates[CHOOSE i \in 1..Len(dates) : \A j \in 1..Len(dates) : ~DateLess(dates[i], dates[j])]

\* the datetime arguments of every match of one line, in match order
LineDates(dateFormat, line) ==
    LET found == FindAllFrom(dateFormat, line, 0)
    IN  [k \in 1..Len(found) |-> DateArgs(dateFormat, found[k])]

\* two decimal digits, zero padded (%d, %m)
Pad2(n) == <<DigitChar(n \div 10), DigitChar(n % 10)>>

\* four decimal digits, zero padded (%Y as documented)
Pad4(n) ==
    <<DigitChar(n \div 1000), DigitChar((n \div 100) % 10),
      DigitChar((n \div 10) % 10), DigitChar(n % 10)>>

\* date.strftime("%d/%m/%Y")
StrfTime(d) == Pad2(d[3]) \o <<"/">> \o Pad2(d[2]) \o <<"/">> \o Pad4(d[1])

\* the row appendItemsToCSV writes for one item
CsvRow(v, d, item) ==
    <<v.name, "", StrfTime(d), item.name, item.units, item.unitCost>>

\* the rows appendItemsToCSV writes, in items order
CsvRows(v, d, its) == [i \in 1..Len(its) |-> CsvRow(v, d, its[i])]

\* AppendedFile with the file opened in mode "w": the old rows are lost
TruncatedFile(file, rows) == rows

\* the file after open(csvPath, "a") and one writerow per item
AppendedFile(file, rows) == file \o rows

\* the pages concatenated in page order (readPDF)
RECURSIVE ConcatPages(_)
ConcatPages(pages) ==
    IF pages = <<>> THEN <<>> ELSE pages[1] \o ConcatPages(Tail(pages))

---------------------------------------------------------------------------
(* Text lines of invoices, character by character *)

\* "01/02/2023"
SfDateEarly ==
    <<"0","1","/","0","2","/","2","0","2","3">>

\* "15/03/2023 20/01/2023"
SfDateTwo ==
    <<"1","5","/","0","3","/","2","0","2","3"," ","2","0","/","0","1","/","2",
      "0","2","3">>

\* "99/99/2023"
SfDateBad ==
    <<"9","9","/","9","9","/","2","0","2","3">>

\* "123AB BOX  AB 5 12.345 X X X X X X X"
SfItemTrunc ==
    <<"1","2","3","A","B"," ","B","O","X"," "," ","A","B"," ","5"," ","1","2",
      ".","3","4","5"," ","X"," ","X"," ","X"," ","X"," ","X"," ","X"," ",
      "X">>

\* "123AB BOX AB 12 X X X X X X X"
SfItemNoDot ==
    <<"1","2","3","A","B"," ","B","O","X"," ","A","B"," ","1","2"," ","X"," ",
      "X"," ","X"," ","X"," ","X"," ","X"," ","X">>

\* "123AB BOX AB 1.20 X X X X X X X"
SfItemBadUnits ==
    <<"1","2","3","A","B"," ","B","O","X"," ","A","B"," ","1",".","2","0"," ",
      "X"," ","X"," ","X"," ","X"," ","X"," ","X"," ","X">>

\* "123AB BOX 5 1.2"
SfItemShort ==
    <<"1","2","3","A","B"," ","B","O","X"," ","5"," ","1",".","2">>

\* "12345 1.20 X X X X X X X"
SfItemCodeUnits ==
    <<"1","2","3","4","5"," ","1",".","2","0"," ","X"," ","X"," ","X"," ","X",
      " ","X"," ","X"," ","X">>

\* "123AB BOX 5 1.20X X X X X X X 02/02/2023"
SfItemTail ==
    <<"1","2","3","A","B"," ","B","O","X"," ","5"," ","1",".","2","0","X"," ",
      "X"," ","X"," ","X"," ","X"," ","X"," ","X"," ","0","2","/","0","2","/",
      "2","0","2","3">>

\* "123AB BOX 5 1.2X X X X X X X X"
SfItemBadCost ==
    <<"1","2","3","A","B"," ","B","O","X"," ","5"," ","1",".","2","X"," ","X",
      " ","X"," ","X"," ","X"," ","X"," ","X"," ","X">>

\* "03330 112 999 5 1.20 X X X X X X X"
SfPhone ==
    <<"0","3","3","3","0"," ","1","1","2"," ","9","9","9"," ","5"," ","1",".",
      "2","0"," ","X"," ","X"," ","X"," ","X"," ","X"," ","X"," ","X">>

\* "2023-02-01"
TsDateEarly ==
    <<"2","0","2","3","-","0","2","-","0","1">>

\* "2023-03-15 2023-01-20"
TsDateTwo ==
    <<"2","0","2","3","-","0","3","-","1","5"," ","2","0","2","3","-","0","1",
      "-","2","0">>

\* "2023-02-30"
TsDateBad ==
    <<"2","0","2","3","-","0","2","-","3","0">>

\* "12345 BOX  AB 5 12.345"
TsItemTrunc ==
    <<"1","2","3","4","5"," ","B","O","X"," "," ","A","B"," ","5"," ","1","2",
      ".","3","4","5">>

\* "12345 BOX AB 12"
TsItemNoDot ==
    <<"1","2","3","4","5"," ","B","O","X"," ","A","B"," ","1","2">>

\* "12345 BOX AB 1.20"
TsItemBadUnits ==
    <<"1","2","3","4","5"," ","B","O","X"," ","A","B"," ","1",".","2","0">>

\* "12345"
TsItemShort ==
    <<"1","2","3","4","5">>

\* "12345 1.20"
TsItemCodeUnits ==
    <<"1","2","3","4","5"," ","1",".","2","0">>

\* "12345 2023-02-02 5 1.20X"
TsItemTail ==
    <<"1","2","3","4","5"," ","2","0","2","3","-","0","2","-","0","2"," ","5",
      " ","1",".","2","0","X">>

\* "12345 BOX 5 1.2X"
TsItemBadCost ==
    <<"1","2","3","4","5"," ","B","O","X"," ","5"," ","1",".","2","X">>

\* "12345 BOX 5 00037.5"
TsExcluded ==
    <<"1","2","3","4","5"," ","B","O","X"," ","5"," ","0","0","0","3","7",".",
      "5">>

---------------------------------------------------------------------------
(* The invoices the model is run on. A text line is held in the state by its *)
(* name; LineText gives its characters.                                      *)

LineText ==
    [SfDateEarly |-> SfDateEarly, SfDateTwo |-> SfDateTwo,
     SfDateBad |-> SfDateBad, SfItemTrunc |-> SfItemTrunc,
     SfItemNoDot |-> SfItemNoDot, SfItemBadUnits |-> SfItemBadUnits,
     SfItemShort |-> SfItemShort, SfItemCodeUnits |-> SfItemCodeUnits,
     SfItemTail |-> SfItemTail, SfItemBadCost |-> SfItemBadCost,
     SfPhone |-> SfPhone,
     TsDateEarly |-> TsDateEarly, TsDateTwo |-> TsDateTwo,
     TsDateBad |-> TsDateBad, TsItemTrunc |-> TsItemTrunc,
     TsItemNoDot |-> TsItemNoDot, TsItemBadUnits |-> TsItemBadUnits,
     TsItemShort |-> TsItemShort, TsItemCodeUnits |-> TsItemCodeUnits,
     TsItemTail |-> TsItemTail, TsItemBadCost |-> TsItemBadCost,
     TsExcluded |-> TsExcluded]

ScrewfixLines ==
    {"SfDateEarly", "SfDateTwo", "SfDateBad", "SfItemTrunc", "SfItemNoDot",
     "SfItemBadUnits", "SfItemShort", "SfItemCodeUnits", "SfItemTail",
     "SfItemBadCost", "SfPhone"}

ToolstationLines ==
    {"TsDateEarly", "TsDateTwo", "TsDateBad", "TsItemTrunc", "TsItemNoDot",
     "TsItemBadUnits", "TsItemShort", "TsItemCodeUnits", "TsItemTail",
     "TsItemBadCost", "TsExcluded"}

LinePool(v) == IF v = SCREWFIX THEN ScrewfixLines ELSE ToolstationLines

\* a document of two pages: the first k lines, then the rest
SplitPages(ls, k) == <<SubSeq(ls, 1, k), SubSeq(ls, k + 1, Len(ls))>>

\* pages is a document of the vendor: a sequence of at most MaxLines lines of
\* its pool, broken into two pages at any place
IsPdfInput(v, pages) ==
    \E n \in 0..MaxLines : \E ls \in [1..n -> LinePool(v)] :
        \E k \in 0..n : pages = SplitPages(ls, k)

\* a row left in the ledger by an earlier run: Toolstation,,01/01/2022,BOX,1,2.5
OldRow ==
    <<"Toolstation", "", <<"0", "1", "/", "0", "1", "/", "2", "0", "2", "2">>,
      <<"B", "O", "X">>, 1, 250>>

CsvInputs == {<<>>, <<OldRow>>}

\* offsets of a Vendor: a range around zero and the triples of the examples
OffsetRange == (0 - MaxNegOffset)..MaxPosOffset

OffsetTriples ==
    (OffsetRange \X OffsetRange \X OffsetRange) \cup {<<-20, 0, 0>>, <<-8, -8, -7>>}

---------------------------------------------------------------------------
(* The handlers of Order over whole documents. The result of one loop        *)
(* iteration depends on the vendor and the line only, so it is computed once *)
(* per line of the pools and looked up.                                      *)

ExtractLineTable ==
    [v \in VendorList |->
        [l \in LinePool(v) |-> ExtractLine(v, LineText[l])] @@ <<>>] @@ <<>>

LineDatesTable ==
    [v \in VendorList |->
        [l \in LinePool(v) |-> LineDates(v.dateFormat, LineText[l])] @@ <<>>] @@ <<>>

\* ExtractItemsFrom inserting each Item at the front of self.items
RECURSIVE ExtractItemsInsertFront(_, _, _, _, _)
ExtractItemsInsertFront(v, lines, i, acc, from) ==
    IF i > Len(lines) THEN [items |-> acc, itemLines |-> from, raisedAt |-> 0]
    ELSE LET r == ExtractLineTable[v][lines[i]]
         IN  IF r.kind = "raise"
             THEN [items |-> acc, itemLines |-> from, raisedAt |-> i]
             ELSE IF r.kind = "item"
             THEN ExtractItemsInsertFront(v, lines, i + 1, <<r.item>> \o acc,
                                          <<i>> \o from)
             ELSE ExtractItemsInsertFront(v, lines, i + 1, acc, from)

\* Order.extractItems from line i on, acc being self.items so far and from the
\* line index of each of them: the items appended, and the index of the line
\* whose Item(...) raised (0 when the loop ran to its end)
RECURSIVE ExtractItemsFrom(_, _, _, _, _)
ExtractItemsFrom(v, lines, i, acc, from) ==
    IF i > Len(lines) THEN [items |-> acc, itemLines |-> from, raisedAt |-> 0]
    ELSE LET r == ExtractLineTable[v][lines[i]]
         IN  IF r.kind = "raise"
             THEN [items |-> acc, itemLines |-> from, raisedAt |-> i]
             ELSE IF r.kind = "item"
             THEN ExtractItemsFrom(v, lines, i + 1, Append(acc, r.item),
                                   Append(from, i))
             ELSE ExtractItemsFrom(v, lines, i + 1, acc, from)

\* the loop of Order.extractDate from line i on, acc being dates so far: the
\* dates collected, and whether a datetime constructor raised ValueError
RECURSIVE CollectDates(_, _, _, _)
CollectDates(v, lines, i, acc) ==
    IF i > Len(lines) THEN [dates |-> acc, raised |-> FALSE]
    ELSE LET args == LineDatesTable[v][lines[i]]
         IN  IF \E k \in 1..Len(args) : ~DateTimeOk(args[k])
             THEN [dates |-> acc, raised |-> TRUE]
             ELSE CollectDates(v, lines, i + 1, acc \o args)

\* ExtractDateResult with max(dates, default=...): no match is not an error
ExtractDateDefault(v, lines) ==
    LET c == CollectDates(v, lines, 1, <<>>)
    IN  IF c.raised THEN [raised |-> TRUE, date |-> None]
        ELSE IF c.dates = <<>> THEN [raised |-> FALSE, date |-> <<1970, 1, 1>>]
        ELSE [raised |-> FALSE, date |-> PyMax(c.dates)]

\* Order.extractDate: the date set, or raised (a datetime constructor raised, or
\* max() was given an empty list)
ExtractDateResult(v, lines) ==
    LET c == CollectDates(v, lines, 1, <<>>)
    IN  IF c.raised \/ c.dates = <<>> THEN [raised |-> TRUE, date |-> None]
        ELSE [raised |-> FALSE, date |-> PyMax(c.dates)]

---------------------------------------------------------------------------
(* The script: order = Order(vendor, input_pdf); order.appendItemsToCSV(...) *)

Init ==
    /\ vendor \in VendorList
    /\ IsPdfInput(vendor, pdfPages)
    /\ textLines = <<>>
    /\ date = None
    /\ items = <<>>
    /\ csv \in CsvInputs
    /\ csvBefore = csv
    /\ pc = "init"
    /\ raisedAt = 0
    /\ itemLines = <<>>
    /\ exports = 0
    /\ offsetStart = 0
    /\ valid = FALSE

\* Order.readPDF
readPDF ==
    /\ pc = "init"
    /\ textLines' = textLines \o ConcatPages(pdfPages)
    /\ pc' = "readPDF"
    /\ UNCHANGED <<vendor, pdfPages, date, items, csv, raisedAt, itemLines, csvBefore,
                   exports, offsetStart, valid>>

\* Order.extractDate
extractDate ==
    /\ pc = "readPDF"
    /\ LET r == ExtractDateResult(vendor, textLines)
       IN  /\ date' = r.date
           /\ pc' = IF r.raised THEN "extractDateRaised" ELSE "extractDate"
    /\ UNCHANGED <<vendor, pdfPages, textLines, items, csv, raisedAt, itemLines, csvBefore,
                   exports, offsetStart, valid>>

\* Order.extractItems
extractItems ==
    /\ pc = "extractDate"
    /\ LET r == ExtractItemsFrom(vendor, textLines, 1, items, itemLines)
       IN  /\ items' = r.items
           /\ itemLines' = r.itemLines
           /\ raisedAt' = r.raisedAt
           /\ pc' = IF r.raisedAt # 0 THEN "extractItemsRaised" ELSE "constructed"
    /\ UNCHANGED <<vendor, pdfPages, textLines, date, csv, csvBefore, exports,
                   offsetStart, valid>>

\* Order.appendItemsToCSV
appendItemsToCSV ==
    /\ pc = "constructed"
    /\ exports < MaxExports
    /\ csv' = AppendedFile(csv, CsvRows(vendor, date, items))
    /\ exports' = exports + 1
    /\ UNCHANGED <<vendor, pdfPages, textLines, date, items, pc, raisedAt,
                   itemLines, csvBefore, offsetStart, valid>>

Next == readPDF \/ extractDate \/ extractItems \/ appendItemsToCSV

Spec == Init /\ [][Next]_vars

---------------------------------------------------------------------------
(* Order.isValidItem on its own, over every offsetStart and offset triple *)

InitValidator ==
    /\ \E t \in OffsetTriples :
           vendor = Vendor("Vendor", SCREWFIX.dateFormat, ScrewfixRegex,
                           t[1], t[2], t[3])
    /\ offsetStart \in 0..MaxOffsetStart
    /\ valid = FALSE
    /\ pc = "call"
    /\ pdfPages = <<>>
    /\ textLines = <<>>
    /\ date = None
    /\ items = <<>>
    /\ csv = <<>>
    /\ csvBefore = <<>>
    /\ raisedAt = 0
    /\ itemLines = <<>>
    /\ exports = 0

isValidItemCall ==
    /\ pc = "call"
    /\ valid' = isValidItem(vendor, offsetStart)
    /\ pc' = "returned"
    /\ UNCHANGED <<vendor, pdfPages, textLines, date, items, csv, raisedAt,
                   itemLines, csvBefore, exports, offsetStart>>

NextValidator == isValidItemCall

SpecValidator == InitValidator /\ [][NextValidator]_vars

---------------------------------------------------------------------------
(* What the specification says about one line, computed once per line *)

Range(s) == {s[i] : i \in 1..Len(s)}

\* line.split(): split on runs of whitespace, no empty tokens
SplitWhitespace(line) == SelectSeq(PySplit(line, " "), LAMBDA w : w # <<>>)

\* 0 <= offsetStart + o <= offsetStart for each of the three offsets
InWindow(v, start) ==
    \A o \in {v.itemNameOffsetIndex, v.unitsOffsetIndex, v.unitCostOffsetIndex} :
        0 <= start + o /\ start + o <= start

\* a substring of the line follows the digit/delimiter skeleton of the format
HasDateMatch(dateFormat, line) ==
    \E p \in 1..(Len(line) - Len(dateFormat) + 1) :
        \A i \in 1..Len(dateFormat) :
            IF dateFormat[i] \in {"D", "M", "Y"}
            THEN line[p + i - 1] \in Digits
            ELSE line[p + i - 1] = dateFormat[i]

\* integerPart + "." + the first two characters of the fractional part
TruncatedCost(costToken) ==
    LET p == PySplit(costToken, ".")
    IN  p[1] \o <<".">> \o SubSeq(p[2], 1, IF Len(p[2]) < 2 THEN Len(p[2]) ELSE 2)

\* float(token) succeeds for a token of the alphabet: digits with at most one
\* point, an optional sign, at least one digit
IsNumeric(token) ==
    LET body == IF token # <<>> /\ token[1] \in {"-", "+"} THEN Tail(token) ELSE token
        p    == PySplit(body, ".")
    IN  /\ Len(p) <= 2
        /\ \A k \in 1..Len(p) : IsDigits(p[k])
        /\ \E k \in 1..Len(p) : p[k] # <<>>

Facts(v, line) ==
    LET words == PySplit(line, " ")
        start == Len(words) - 1
        ok    == InWindow(v, start)
        cost  == IF ok THEN words[start + v.unitCostOffsetIndex + 1] ELSE <<>>
        units == IF ok THEN words[start + v.unitsOffsetIndex + 1] ELSE <<>>
        ws    == SplitWhitespace(line)
    IN  [match    |-> SearchItemRegex(v.itemRegex, line),
         words    |-> words,
         start    |-> start,
         inWindow |-> ok,
         valid    |-> isValidItem(v, start),
         units    |-> units,
         cost     |-> cost,
         hasDot   |-> "." \in Range(cost),
         wsTokens |-> ws,
         hasDate  |-> HasDateMatch(v.dateFormat, line)]

FactsTable ==
    [v \in VendorList |->
        [l \in LinePool(v) |-> Facts(v, LineText[l])] @@ <<>>] @@ <<>>

\* the facts of text line i of the order
F(i) == FactsTable[vendor][textLines[i]]

\* (i) matches the item regex, (ii) passes offset validation, (iii) has a
\* decimal point in its unit-cost token
Qualifies(i) == F(i).match /\ F(i).inWindow /\ F(i).hasDot

\* a qualifying line whose units token is no integer literal or whose
\* truncated cost string is not numeric
Unparsable(i) ==
    /\ Qualifies(i)
    /\ \/ ~IsIntLiteral(F(i).units)
       \/ ~IsNumeric(TruncatedCost(F(i).cost))

\* the indices of the qualifying lines among the first n, in line order
QualifyingUpTo(n) == SelectSeq([i \in 1..n |-> i], Qualifies)

\* extractItems has run (to its end, or until an Item(...) raised)
ItemsRan == pc \in {"constructed", "extractItemsRaised"}

\* extractDate has run
DateRan == pc \notin {"init", "readPDF", "call", "returned"}

---------------------------------------------------------------------------
(* C1 *)

\* C1: isValidItem(offsetStart) is True iff 0 <= offsetStart + o <= offsetStart
\* for each of the three offsets o of the vendor; offsetStart = 10 with
\* (-8,-8,-7) is valid, (-20,0,0) is invalid.
C1_IsValidItemIffInWindow ==
    pc = "returned" =>
        /\ valid <=> InWindow(vendor, offsetStart)
        /\ (/\ vendor.itemNameOffsetIndex = -20
            /\ vendor.unitsOffsetIndex = 0
            /\ vendor.unitCostOffsetIndex = 0) => ~valid

C1_Witness ==
    /\ pc = "returned"
    /\ valid
    /\ offsetStart = 10
    /\ vendor.itemNameOffsetIndex = -8
    /\ vendor.unitsOffsetIndex = -8
    /\ vendor.unitCostOffsetIndex = -7

---------------------------------------------------------------------------
(* C2 *)

\* C2 as stated: after extractItems has run, items holds exactly one Item for
\* each qualifying line of textLines, in line order.
C2_OneItemPerQualifyingLine ==
    ItemsRan =>
        /\ itemLines = QualifyingUpTo(Len(textLines))
        /\ Len(items) = Len(itemLines)

\* C2 amended: when extractItems returns, items holds exactly one Item for each
\* qualifying line, in line order; when Item(...) raises at a line, that line
\* qualifies and items holds one Item for each qualifying line before it; a
\* line failing (i), (ii) or (iii) adds no Item and raises no error.
C2_OneItemPerQualifyingLineUntilRaise ==
    ItemsRan =>
        /\ Len(items) = Len(itemLines)
        /\ pc = "constructed" =>
               raisedAt = 0 /\ itemLines = QualifyingUpTo(Len(textLines))
        /\ pc = "extractItemsRaised" =>
               /\ raisedAt \in 1..Len(textLines)
               /\ Qualifies(raisedAt)
               /\ itemLines = QualifyingUpTo(raisedAt - 1)

C2_Witness ==
    /\ pc = "constructed"
    /\ Len(items) = 2
    /\ \E i \in 1..Len(textLines) : F(i).match /\ ~Qualifies(i)

---------------------------------------------------------------------------
(* C3 *)

\* the dates of the matches of all lines that are calendar dates, in order
RECURSIVE ParsedDates(_)
ParsedDates(n) ==
    IF n = 0 THEN <<>>
    ELSE ParsedDates(n - 1)
             \o SelectSeq(LineDatesTable[vendor][textLines[n]], DateTimeOk)

\* C3: extractDate collects every successfully parsed date of every match on
\* every line, and whenever that sequence is non-empty the Order's date is its
\* chronologically latest value.
C3_DateIsLatestParsed ==
    (DateRan /\ ParsedDates(Len(textLines)) # <<>>) =>
        /\ date \in Range(ParsedDates(Len(textLines)))
        /\ \A d \in Range(ParsedDates(Len(textLines))) : ~DateLess(date, d)

---------------------------------------------------------------------------
(* C4 *)

NoDateMatch == \A i \in 1..Len(textLines) : ~F(i).hasDate

\* C4: if no substring of any line matches the date pattern, Order construction
\* fails in extractDate: no date is set, extractItems never runs (items stays
\* empty) and appendItemsToCSV is never reached (the ledger keeps its rows).
C4_NoDateIsFatal ==
    NoDateMatch =>
        /\ pc \in {"init", "readPDF", "extractDateRaised"}
        /\ date = None
        /\ items = <<>>
        /\ exports = 0
        /\ csv = csvBefore

C4_Witness ==
    /\ pc = "extractDateRaised"
    /\ NoDateMatch
    /\ \E i \in 1..Len(textLines) : Qualifies(i) /\ ~Unparsable(i)

---------------------------------------------------------------------------
(* C5 *)

\* the value, in hundredths, of a fractional part cut after its second digit
TwoDigits(frac) ==
    IF Len(frac) = 0 THEN 0
    ELSE IF Len(frac) = 1 THEN 10 * DigitVal(frac[1])
    ELSE 10 * DigitVal(frac[1]) + DigitVal(frac[2])

\* the line of item k
LineOfItem(k) == F(itemLines[k])

---------------------------------------------------------------------------
(* C6 *)

\* s is the date d written as DD/MM/YYYY
IsDDMMYYYY(s, d) ==
    /\ Len(s) = 10
    /\ s[3] = "/" /\ s[6] = "/"
    /\ IsDigits(SubSeq(s, 1, 2)) /\ DigitsVal(SubSeq(s, 1, 2)) = d[3]
    /\ IsDigits(SubSeq(s, 4, 5)) /\ DigitsVal(SubSeq(s, 4, 5)) = d[2]
    /\ IsDigits(SubSeq(s, 7, 10)) /\ DigitsVal(SubSeq(s, 7, 10)) = d[1]

\* row is [vendor name, "", date as DD/MM/YYYY, item name, units, unit cost]
IsRowOf(row, item) ==
    /\ Len(row) = 6
    /\ row[1] = vendor.name
    /\ row[2] = ""
    /\ IsDDMMYYYY(row[3], date)
    /\ row[4] = item.name
    /\ row[5] = item.units
    /\ row[6] = item.unitCost

\* the ledger is its rows before the script, then one copy per export of the
\* rows of items, in items order
LedgerIsCopies ==
    /\ Len(csv) = Len(csvBefore) + exports * Len(items)
    /\ SubSeq(csv, 1, Len(csvBefore)) = csvBefore
    /\ \A e \in 1..exports : \A k \in 1..Len(items) :
           IsRowOf(csv[Len(csvBefore) + (e - 1) * Len(items) + k], items[k])

\* an export keeps the rows of the file and the fields of the Order
ExportAppends ==
    exports' # exports =>
        /\ SubSeq(csv', 1, Len(csv)) = csv
        /\ Len(csv') = Len(csv) + Len(items)
        /\ UNCHANGED <<vendor, date, items, textLines>>

\* C6: each appendItemsToCSV call appends, after the rows already in the file and
\* without altering them, one row per Item in items order, and leaves vendor,
\* date, items and textLines unchanged; k exports add k copies of the rows.
C6_ExportAppendsRows == [](LedgerIsCopies) /\ [][ExportAppends]_vars

C6_Witness ==
    /\ exports = 2
    /\ Len(items) = 2
    /\ csvBefore # <<>>
    /\ Len(csv) = 5

---------------------------------------------------------------------------
(* C7 *)

\* C7 as stated: a line that matches and passes validation and whose units token
\* is no integer literal or whose unit-cost token is not numeric makes
\* extractItems raise.
C7_NonNumericAlwaysRaises ==
    pc = "constructed" =>
        \A i \in 1..Len(textLines) :
            (F(i).match /\ F(i).inWindow) =>
                IsIntLiteral(F(i).units) /\ IsNumeric(F(i).cost)

\* C7 amended: a line that matches, passes validation and has a "." in its
\* unit-cost token, and whose units token is no integer literal or whose
\* truncated cost string is not numeric, makes Item(...) raise out of Order
\* construction, at that line or at an earlier such line; it is never skipped.
C7_UnparsableQualifyingLineRaises ==
    ItemsRan =>
        \A i \in 1..Len(textLines) :
            Unparsable(i) => (raisedAt # 0 /\ raisedAt <= i /\ pc = "extractItemsRaised")

C7_Witness ==
    /\ pc = "extractItemsRaised"
    /\ raisedAt # 0
    /\ Unparsable(raisedAt)
    /\ ~IsIntLiteral(F(raisedAt).units)

---------------------------------------------------------------------------
(* C8 *)

\* C8 as stated: once the date is resolved, extractItems never raises.
C8_ExtractItemsNeverRaises == pc # "extractItemsRaised"

\* C8 amended: once the date is resolved, extractItems raises only at a line
\* that matches, passes validation, has a "." in its unit-cost token and whose
\* units token is no integer literal or whose truncated cost string is not
\* numeric; without such a line Order construction completes.
C8_RaisesOnlyAtUnparsableLine ==
    /\ pc = "extractItemsRaised" =>
           raisedAt \in 1..Len(textLines) /\ Unparsable(raisedAt)
    /\ (ItemsRan /\ \A i \in 1..Len(textLines) : ~Unparsable(i)) =>
           pc = "constructed"

C8_Witness ==
    /\ pc = "extractItemsRaised"
    /\ raisedAt > 1
    /\ IsIntLiteral(F(raisedAt).units)
    /\ ~IsNumeric(TruncatedCost(F(raisedAt).cost))

---------------------------------------------------------------------------
(* C9 *)

\* the name is tokens[1 : end] joined with single spaces
IsNameOf(name, tokens, end) ==
    IF end <= 1 THEN name = <<>>
    ELSE PySplit(name, " ") = SubSeq(tokens, 2, end)

\* C9 as stated: with the line split on whitespace, the name of every Item is
\* the tokens from index 1 up to offsetStart + nameOffset, joined with spaces.
C9_NameFromWhitespaceTokens ==
    ItemsRan =>
        \A k \in 1..Len(items) :
            LET tokens == LineOfItem(k).wsTokens
            IN  IsNameOf(items[k].name, tokens,
                         (Len(tokens) - 1) + vendor.itemNameOffsetIndex)

\* C9 amended: with the line split at every single space (two adjacent spaces
\* enclose an empty token), the name of every Item is the tokens from index 1 up
\* to but not including offsetStart + nameOffset, joined with single spaces;
\* token 0 is not part of it and it is empty when offsetStart + nameOffset <= 1.
C9_NameFromSpaceTokens ==
    ItemsRan =>
        \A k \in 1..Len(items) :
            LET tokens == LineOfItem(k).words
            IN  IsNameOf(items[k].name, tokens,
                         (Len(tokens) - 1) + vendor.itemNameOffsetIndex)

C9_Witness ==
    /\ pc = "constructed"
    /\ \E k \in 1..Len(items) :
           /\ LineOfItem(k).words # LineOfItem(k).wsTokens
           /\ items[k].name = <<"B", "O", "X", " ", " ", "A", "B">>

---------------------------------------------------------------------------
(* C10 *)

\* C10 as stated: on a line that matches and passes validation the indices read
\* for units and unit cost are both >= 1.
C10_FieldIndicesSkipCode ==
    ItemsRan =>
        \A i \in 1..Len(textLines) :
            (F(i).match /\ F(i).valid) =>
                /\ F(i).start + vendor.unitsOffsetIndex >= 1
                /\ F(i).start + vendor.unitCostOffsetIndex >= 1

\* C10 amended: for both shipped profiles a matching line passes validation iff
\* it has at least 9 (SCREWFIX) or 2 (TOOLSTATION) tokens; then the index read
\* for the unit cost is >= 1 and the index read for units is >= 0, and it is 0
\* (token 0 is read as units) on a line of exactly that many tokens; a matching
\* line with fewer tokens yields no Item and no error.
C10_CostIndexSkipsCode ==
    ItemsRan =>
        \A i \in 1..Len(textLines) :
            F(i).match =>
                /\ F(i).valid <=> F(i).start >= (IF vendor = SCREWFIX THEN 8 ELSE 1)
                /\ F(i).valid =>
                       /\ F(i).start + vendor.unitCostOffsetIndex >= 1
                       /\ F(i).start + vendor.unitsOffsetIndex >= 0
                       /\ (F(i).start + vendor.unitsOffsetIndex = 0)
                              <=> (F(i).start = (IF vendor = SCREWFIX THEN 8 ELSE 1))
                /\ ~F(i).valid =>
                       /\ raisedAt # i
                       /\ \A k \in 1..Len(itemLines) : itemLines[k] # i

C10_Witness ==
    /\ pc = "constructed"
    /\ \E k \in 1..Len(items) :
           /\ LineOfItem(k).start + vendor.unitsOffsetIndex = 0
           /\ items[k].units = 12345
    /\ \E i \in 1..Len(textLines) : F(i).match /\ ~F(i).valid

====
